---- MODULE Spec2Model ----
(***************************************************************************)
(* Model of the UDP session protocol of src/A/Server.py and                *)
(* src/A/Client.py: the server's session table, its per-session handlers   *)
(* and its event loop, and the client's three flows.                       *)
(***************************************************************************)
EXTENDS Integers, Sequences, FiniteSets, TLC

\* ---------------------------------------------------------------- constants
MAGIC == 50273
VERSION == 1
CMD_HELLO == 0
CMD_DATA == 1
CMD_ALIVE == 2
CMD_GOODBYE == 3
HeaderSize == 28
IdleThreshold == 10

\* ------------------------------------------------------------------- bounds
\* Largest value of the 32-bit seq field ('I' of the struct format).
SeqLimit == 3
\* Largest value of the 64-bit clock field ('Q' of the struct format).
ClockLimit == 10
\* Wall-clock time advances in steps of TickStep up to MaxTime.
TickStep == 10
MaxTime == 20
\* The server handles at most MaxPackets datagrams in a run.
MaxPackets == 3
\* The user types at most MaxLines lines of text.
MaxLines == 2
\* An open network hands the client at most MaxInbound datagrams.
MaxInbound == 1

SessionIds == {1, 2}
Addrs == {"A", "B"}
NoClock == 0 - 1
NoSid == 0 - 1
\* The client's random session id and its address.
ClientSid == 1
ClientAddr == "A"
\* Client.py: self.timeout
Timeout == 5

Max(a, b) == IF a >= b THEN a ELSE b

\* ---------------------------------------------------------------- the wire
\* A datagram is the unpacked view of its first HeaderSize bytes plus its
\* length; a datagram shorter than the header has no readable field.
encode(command, seq_num, session_id, clock) ==
  [len |-> HeaderSize, magic |-> MAGIC, version |-> VERSION,
   command |-> command, seq_num |-> seq_num, session_id |-> session_id,
   logical_clock |-> clock]

\* struct.pack raises struct.error when a field exceeds its width.
pack_ok(seq_num, clock) == seq_num <= SeqLimit /\ clock <= ClockLimit

NoHdr == [ok |-> FALSE, command |-> 0 - 1, seq_num |-> 0, session_id |-> NoSid,
          logical_clock |-> 0]

\* UDPServer.parse_message: (None, None) for a short datagram or a wrong
\* magic or version, the header fields otherwise.
parse_message(data) ==
  IF data.len < HeaderSize THEN NoHdr
  ELSE IF data.magic # MAGIC \/ data.version # VERSION THEN NoHdr
  ELSE [ok |-> TRUE, command |-> data.command, seq_num |-> data.seq_num,
        session_id |-> data.session_id, logical_clock |-> data.logical_clock]

\* ---------------------------------------------------------- Session record
Session(session_id, addr, t) ==
  [session_id |-> session_id, addr |-> addr, expected_seq |-> 0,
   last_activity |-> t, active |-> TRUE, logical_clock |-> 0]

\* Faulty variant of update_clock: the received clock is not merged.
update_clock_local(logical_clock, received_clock) == logical_clock + 1

update_clock(logical_clock, received_clock) ==
  IF received_clock # NoClock
  THEN Max(logical_clock, received_clock) + 1
  ELSE logical_clock + 1

Report(kind, seq) == [kind |-> kind, seq |-> seq]

\* Session.send_message / Session.create_message: tick the clock, pack, send.
\* The clock is ticked before struct.pack can raise.
send_message(s, command, seq_num) ==
  LET clock == update_clock(s.logical_clock, NoClock)
      s1 == [s EXCEPT !.logical_clock = clock]
  IN IF pack_ok(seq_num, clock)
     THEN [sess |-> s1, raised |-> FALSE, reports |-> <<>>,
           sent |-> <<[to |-> s.addr,
                       dgram |-> encode(command, seq_num, s.session_id, clock)]>>]
     ELSE [sess |-> s1, raised |-> TRUE, reports |-> <<>>, sent |-> <<>>]

handle_hello(s, hdr) ==
  IF s.expected_seq # 0
  THEN LET r == send_message(s, CMD_GOODBYE, s.expected_seq)
           rep == <<Report("protocol_error", s.expected_seq)>>
       IN IF r.raised
          THEN [r EXCEPT !.reports = rep]
          ELSE [r EXCEPT !.reports = rep, !.sess.active = FALSE]
  ELSE LET s1 == [s EXCEPT !.logical_clock = update_clock(@, hdr.logical_clock)]
           r == send_message(s1, CMD_HELLO, s1.expected_seq)
           rep == <<Report("created", 0)>>
       IN IF r.raised
          THEN [r EXCEPT !.reports = rep]
          ELSE [r EXCEPT !.reports = rep, !.sess.expected_seq = @ + 1]

\* The while loop of handle_data: one "Lost packet!" per skipped number.
RECURSIVE lost_loop(_, _, _)
lost_loop(expected_seq, seq_num, reps) ==
  IF expected_seq < seq_num
  THEN lost_loop(expected_seq + 1, seq_num,
                 Append(reps, Report("lost", expected_seq)))
  ELSE [expected_seq |-> expected_seq, reports |-> reps]

\* Faulty variant of handle_data: a duplicate refreshes last_activity.
handle_data_refresh(s, hdr, t) ==
  IF hdr.seq_num < s.expected_seq
  THEN [sess |-> [s EXCEPT !.last_activity = t], raised |-> FALSE,
        sent |-> <<>>, reports |-> <<Report("duplicate", hdr.seq_num)>>]
  ELSE LET l == lost_loop(s.expected_seq, hdr.seq_num, <<>>)
           s1 == [s EXCEPT !.expected_seq = l.expected_seq,
                           !.logical_clock = update_clock(@, hdr.logical_clock)]
           r == send_message(s1, CMD_ALIVE, s1.expected_seq)
       IN IF r.raised
          THEN [r EXCEPT !.reports = l.reports]
          ELSE [r EXCEPT !.reports = l.reports,
                         !.sess.expected_seq = @ + 1,
                         !.sess.last_activity = t]

\* Faulty variant of handle_data: expected_seq is incremented before the reply.
handle_data_incfirst(s, hdr, t) ==
  IF hdr.seq_num < s.expected_seq
  THEN [sess |-> s, raised |-> FALSE, sent |-> <<>>,
        reports |-> <<Report("duplicate", hdr.seq_num)>>]
  ELSE LET l == lost_loop(s.expected_seq, hdr.seq_num, <<>>)
           s1 == [s EXCEPT !.expected_seq = l.expected_seq + 1,
                           !.logical_clock = update_clock(@, hdr.logical_clock)]
           r == send_message(s1, CMD_ALIVE, s1.expected_seq)
       IN IF r.raised
          THEN [r EXCEPT !.reports = l.reports]
          ELSE [r EXCEPT !.reports = l.reports,
                         !.sess.last_activity = t]

handle_data(s, hdr, t) ==
  IF hdr.seq_num < s.expected_seq
  THEN [sess |-> s, raised |-> FALSE, sent |-> <<>>,
        reports |-> <<Report("duplicate", hdr.seq_num)>>]
  ELSE LET l == lost_loop(s.expected_seq, hdr.seq_num, <<>>)
           s1 == [s EXCEPT !.expected_seq = l.expected_seq,
                           !.logical_clock = update_clock(@, hdr.logical_clock)]
           r == send_message(s1, CMD_ALIVE, s1.expected_seq)
       IN IF r.raised
          THEN [r EXCEPT !.reports = l.reports]
          ELSE [r EXCEPT !.reports = l.reports,
                         !.sess.expected_seq = @ + 1,
                         !.sess.last_activity = t]

handle_goodbye(s, hdr) ==
  LET s1 == [s EXCEPT !.logical_clock = update_clock(@, hdr.logical_clock)]
      r == send_message(s1, CMD_GOODBYE, s1.expected_seq)
      rep == <<Report("goodbye", hdr.seq_num)>>
  IN IF r.raised
     THEN [r EXCEPT !.reports = rep]
     ELSE [r EXCEPT !.reports = Append(rep, Report("closed", hdr.seq_num)),
                    !.sess.active = FALSE]

\* Session.check_timeout; `timed_out` is its return value.
check_timeout(s, t) ==
  IF t - s.last_activity > IdleThreshold /\ s.active
  THEN LET r == send_message(s, CMD_GOODBYE, s.expected_seq)
           rep == <<Report("timeout", s.expected_seq)>>
       IN IF r.raised
          THEN [sess |-> r.sess, raised |-> TRUE, sent |-> <<>>,
                reports |-> rep, timed_out |-> FALSE]
          ELSE [sess |-> [r.sess EXCEPT !.active = FALSE], raised |-> FALSE,
                sent |-> r.sent, reports |-> rep, timed_out |-> TRUE]
  ELSE [sess |-> s, raised |-> FALSE, sent |-> <<>>, reports |-> <<>>,
        timed_out |-> FALSE]

\* ------------------------------------------------------------ session table
\* The dict self.sessions: `tab` maps the ids present to their records and
\* `ord` lists the keys in insertion order.
Remove(seq, x) == SelectSeq(seq, LAMBDA y : y # x)

DictSet(T, k, v) ==
  [tab |-> [x \in (DOMAIN T.tab) \cup {k} |-> IF x = k THEN v ELSE T.tab[x]],
   ord |-> IF k \in DOMAIN T.tab THEN T.ord ELSE Append(T.ord, k)]

DictDel(T, k) ==
  [tab |-> [x \in (DOMAIN T.tab) \ {k} |-> T.tab[x]],
   ord |-> Remove(T.ord, k)]

\* Faulty variant of may_create: any command starts a session.
may_create_any(command) == TRUE

\* "Only HELLO can start a session".
may_create(command) == command = CMD_HELLO

\* UDPServer.handle_packet.
handle_packet(T, data, addr, t) ==
  LET hdr == parse_message(data)
      quiet == [T |-> T, raised |-> FALSE, sent |-> <<>>, reports |-> <<>>]
  IN IF ~hdr.ok THEN quiet
     ELSE IF hdr.session_id \notin DOMAIN T.tab /\ ~may_create(hdr.command)
     THEN quiet
     ELSE LET T1 == IF hdr.session_id \notin DOMAIN T.tab
                    THEN DictSet(T, hdr.session_id,
                                 Session(hdr.session_id, addr, t))
                    ELSE T
              session == T1.tab[hdr.session_id]
          IN IF hdr.command = CMD_HELLO
             THEN LET r == handle_hello(session, hdr)
                  IN [T |-> DictSet(T1, hdr.session_id, r.sess),
                      raised |-> r.raised, sent |-> r.sent,
                      reports |-> r.reports]
             ELSE IF hdr.command = CMD_DATA
             THEN LET r == handle_data(session, hdr, t)
                  IN [T |-> DictSet(T1, hdr.session_id, r.sess),
                      raised |-> r.raised, sent |-> r.sent,
                      reports |-> r.reports]
             ELSE IF hdr.command = CMD_GOODBYE
             THEN LET r == handle_goodbye(session, hdr)
                  IN [T |-> IF r.raised
                            THEN DictSet(T1, hdr.session_id, r.sess)
                            ELSE DictDel(T1, hdr.session_id),
                      raised |-> r.raised, sent |-> r.sent,
                      reports |-> r.reports]
             ELSE [quiet EXCEPT !.T = T1]

\* The idle sweep of UDPServer.run over list(self.sessions.keys()); an
\* exception raised by check_timeout is not caught and ends the sweep.
RECURSIVE sweep(_, _, _, _)
sweep(T, ks, t, acc) ==
  IF ks = <<>> THEN [acc EXCEPT !.T = T]
  ELSE LET r == check_timeout(T.tab[Head(ks)], t)
           T1 == DictSet(T, Head(ks), r.sess)
           acc1 == [acc EXCEPT !.sent = @ \o r.sent,
                               !.reports = @ \o r.reports]
       IN IF r.raised
          THEN [acc1 EXCEPT !.T = T1, !.raised = TRUE]
          ELSE sweep(IF r.timed_out THEN DictDel(T1, Head(ks)) ELSE T1,
                     Tail(ks), t, acc1)

\* The cleanup loop after the event loop: GOODBYE to every session left.
RECURSIVE cleanup(_, _, _)
cleanup(T, ks, acc) ==
  IF ks = <<>> THEN [acc EXCEPT !.T = T]
  ELSE LET s == T.tab[Head(ks)]
           r == send_message(s, CMD_GOODBYE, s.expected_seq)
           T1 == DictSet(T, Head(ks), r.sess)
       IN IF r.raised
          THEN [acc EXCEPT !.T = T1, !.raised = TRUE]
          ELSE cleanup(DictDel(T1, Head(ks)), Tail(ks),
                       [acc EXCEPT !.sent = @ \o r.sent])

\* -------------------------------------------------------------------- state
VARIABLES
  sessions,        \* UDPServer.sessions: session_id -> Session record
  order,           \* insertion order of the keys of UDPServer.sessions
  srv_running,     \* UDPServer.running
  spc,             \* position of UDPServer.run: sweep, select, cleanup, ...
  now,             \* time.time()
  sent,            \* datagrams the last server step passed to sock.sendto
  reports,         \* lines the last server step printed
  op,              \* the last server step and the header it handled
  accepted,        \* per record: highest sequence number accepted, or -1
  torn,            \* ids of the sessions torn down so far
  npackets,        \* datagrams received so far
  client,          \* the UDPClient object and the position of its threads
  c2s,             \* datagrams in flight from the client to the server
  s2c              \* datagrams in flight from the server to the client

vars == <<sessions, order, srv_running, spc, now, sent, reports, op,
          accepted, torn, npackets, client, c2s, s2c>>

Commands == {CMD_HELLO, CMD_DATA, CMD_ALIVE, CMD_GOODBYE}
ClockSamples == {0, 2, ClockLimit}

ValidDatagrams ==
  {encode(c, q, s, k) : c \in Commands, q \in 0..SeqLimit,
                        s \in SessionIds, k \in ClockSamples}

Malformed ==
  LET d == encode(CMD_HELLO, 0, 1, 0)
  IN {[d EXCEPT !.len = HeaderSize - 1], [d EXCEPT !.magic = MAGIC + 1],
      [d EXCEPT !.version = VERSION + 1]}

Datagrams == ValidDatagrams \cup Malformed

Table == [tab |-> sessions, ord |-> order]

\* TRUE when handle_hello / handle_data reach their `expected_seq += 1`.
accepts(T, hdr, r) ==
  /\ hdr.ok
  /\ ~r.raised
  /\ \/ /\ hdr.command = CMD_HELLO
        /\ hdr.session_id \in DOMAIN T.tab =>
             T.tab[hdr.session_id].expected_seq = 0
     \/ /\ hdr.command = CMD_DATA
        /\ hdr.session_id \in DOMAIN T.tab
        /\ hdr.seq_num >= T.tab[hdr.session_id].expected_seq

TornBy(tab1, tab2) ==
  {s \in DOMAIN tab1 : s \notin DOMAIN tab2 \/ ~tab2[s].active}

\* No datagram: the `data` of listen_server before recvfrom has returned.
NoData == [encode(CMD_HELLO, 0, 0, 0) EXCEPT !.len = 0]

\* The two lines the client prints when it ends a session.
PrintTimeout == "Timeout, no response from server"
PrintGoodbye == "Server sent GOODBYE"

\* UDPClient.__init__ and the start of run(): the object's fields, the
\* position of the main flow (pcm), of listen_server (pcl) and of
\* check_timeout (pcw), their locals, the lines printed so far (log) and
\* the number of datagrams an open network has handed to recvfrom (recvd).
UDPClient ==
  [session_id |-> ClientSid, seq_num |-> 0, logical_clock |-> 0,
   state |-> "INIT", running |-> TRUE, last_sent_time |-> 0,
   pending_ack |-> FALSE,
   pcm |-> "start", pcl |-> "loop", pcw |-> "loop",
   m_cmd |-> CMD_HELLO, m_tmp |-> 0, m_clock |-> 0,
   l_hdr |-> NoHdr, l_tmp |-> 0, lines |-> 0,
   l_data |-> NoData, log |-> {}, recvd |-> 0]

Init ==
  /\ sessions = [x \in {} |-> 0]
  /\ order = <<>>
  /\ srv_running = TRUE
  /\ spc = "sweep"
  /\ now = 0
  /\ sent = <<>>
  /\ reports = <<>>
  /\ op = [kind |-> "init", hdr |-> NoHdr]
  /\ accepted = [x \in {} |-> 0]
  /\ torn = {}
  /\ npackets = 0
  /\ client = UDPClient
  /\ c2s = <<>>
  /\ s2c = <<>>

\* One pass of the `for session_id in list(self.sessions.keys())` sweep.
run_sweep ==
  /\ spc = "sweep"
  /\ srv_running
  /\ LET r == sweep(Table, order, now,
                    [T |-> Table, raised |-> FALSE, sent |-> <<>>,
                     reports |-> <<>>])
     IN /\ sessions' = r.T.tab
        /\ order' = r.T.ord
        /\ sent' = r.sent
        /\ reports' = r.reports
        /\ spc' = IF r.raised THEN "crashed" ELSE "select"
        /\ accepted' = [s \in DOMAIN r.T.tab |-> accepted[s]]
        /\ torn' = torn \cup TornBy(sessions, r.T.tab)
  /\ op' = [kind |-> "sweep", hdr |-> NoHdr]
  /\ UNCHANGED <<srv_running, now, npackets>>

\* select() reports the socket readable: recvfrom and handle_packet inside
\* the try; any exception other than BlockingIOError clears self.running.
run_receive(data, addr) ==
  /\ spc = "select"
  /\ npackets < MaxPackets
  /\ npackets' = npackets + 1
  /\ LET r == handle_packet(Table, data, addr, now)
         hdr == parse_message(data)
     IN /\ sessions' = r.T.tab
        /\ order' = r.T.ord
        /\ sent' = r.sent
        /\ reports' = r.reports
        /\ srv_running' = ~r.raised
        /\ spc' = IF r.raised THEN "cleanup" ELSE "sweep"
        /\ op' = [kind |-> "packet", hdr |-> hdr]
        /\ accepted' =
             [s \in DOMAIN r.T.tab |->
                IF hdr.ok /\ s = hdr.session_id /\ accepts(Table, hdr, r)
                THEN (IF hdr.command = CMD_HELLO THEN 0 ELSE hdr.seq_num)
                ELSE IF s \in DOMAIN sessions THEN accepted[s] ELSE 0 - 1]
        /\ torn' = torn \cup TornBy(sessions, r.T.tab)
  /\ UNCHANGED now

\* select() times out after 1.0 s with nothing readable.
run_select_timeout ==
  /\ spc = "select"
  /\ spc' = "sweep"
  /\ sent' = <<>>
  /\ reports' = <<>>
  /\ op' = [kind |-> "idle", hdr |-> NoHdr]
  /\ UNCHANGED <<sessions, order, srv_running, now, accepted, torn, npackets>>

\* The loop left with self.running false: GOODBYE to every session.
run_cleanup ==
  /\ spc = "cleanup"
  /\ LET r == cleanup(Table, order,
                      [T |-> Table, raised |-> FALSE, sent |-> <<>>,
                       reports |-> <<>>])
     IN /\ sessions' = r.T.tab
        /\ order' = r.T.ord
        /\ sent' = r.sent
        /\ reports' = r.reports
        /\ spc' = IF r.raised THEN "crashed" ELSE "exited"
        /\ accepted' = [s \in DOMAIN r.T.tab |-> accepted[s]]
  /\ op' = [kind |-> "cleanup", hdr |-> NoHdr]
  /\ UNCHANGED <<srv_running, now, torn, npackets>>

\* Wall-clock time passes.
Tick ==
  /\ now + TickStep <= MaxTime
  /\ now' = now + TickStep
  /\ UNCHANGED <<sessions, order, srv_running, spc, sent, reports, op,
                 accepted, torn, npackets, client, c2s, s2c>>

\* ------------------------------------------- the server on an open network
\* Any datagram may arrive from any address; replies are not delivered.
IdleSweep == run_sweep /\ UNCHANGED <<client, c2s, s2c>>

ReceivePacket(data, addr) ==
  run_receive(data, addr) /\ UNCHANGED <<client, c2s, s2c>>

SelectTimeout == run_select_timeout /\ UNCHANGED <<client, c2s, s2c>>

Cleanup == run_cleanup /\ UNCHANGED <<client, c2s, s2c>>

Receive == \E data \in Datagrams, addr \in Addrs : ReceivePacket(data, addr)

Next ==
  \/ IdleSweep
  \/ Receive
  \/ SelectTimeout
  \/ Cleanup
  \/ Tick

Spec == Init /\ [][Next]_vars

\* ------------------------------------------------- the clock of one session
\* A session record as handle_packet creates it, then any sequence of
\* update_clock calls on it, with a received clock or without one.
InitTick ==
  /\ \E sid \in SessionIds, addr \in Addrs :
        /\ sessions = DictSet([tab |-> [x \in {} |-> 0], ord |-> <<>>], sid,
                              Session(sid, addr, 0)).tab
        /\ order = <<sid>>
        /\ accepted = [x \in {sid} |-> 0 - 1]
  /\ srv_running = TRUE
  /\ spc = "select"
  /\ now = 0
  /\ sent = <<>>
  /\ reports = <<>>
  /\ op = [kind |-> "init", hdr |-> NoHdr]
  /\ torn = {}
  /\ npackets = 0
  /\ client = UDPClient
  /\ c2s = <<>>
  /\ s2c = <<>>

\* One call of Session.update_clock; `reports` holds its return value.
tick_call(sid, received) ==
  /\ sessions[sid].logical_clock <= ClockLimit
  /\ sessions' = [sessions EXCEPT ![sid].logical_clock =
                                     update_clock(@, received)]
  /\ reports' = <<Report("returned", sessions'[sid].logical_clock)>>
  /\ op' = [kind |-> "tick", hdr |-> [NoHdr EXCEPT !.session_id = sid,
                                                   !.logical_clock = received]]
  /\ UNCHANGED <<order, srv_running, spc, now, sent, accepted, torn,
                 npackets, client, c2s, s2c>>

TickReceived ==
  \E sid \in DOMAIN sessions, c \in 0..ClockLimit : tick_call(sid, c)

TickLocal == \E sid \in DOMAIN sessions : tick_call(sid, NoClock)

NextTick == TickReceived \/ TickLocal

SpecTick == InitTick /\ [][NextTick]_vars

\* --------------------------------------------------------------- the client
srvVars == <<sessions, order, srv_running, spc, sent, reports, op, accepted,
             torn, npackets>>

\* The client process lives until run() returns or raises in the main flow;
\* the listener and the watchdog are daemon threads and die with it.
Alive == client.pcm \notin {"done", "crashed"}

\* Faulty variant of cli_parse_message: the session id is not compared.
cli_parse_message_anysid(data, session_id) ==
  IF data.len < HeaderSize THEN NoHdr
  ELSE IF data.magic # MAGIC \/ data.version # VERSION THEN NoHdr
  ELSE [ok |-> TRUE, command |-> data.command, seq_num |-> data.seq_num,
        session_id |-> data.session_id, logical_clock |-> data.logical_clock]

\* UDPClient.parse_message: as the server's, and the session id must match.
cli_parse_message(data, session_id) ==
  IF data.len < HeaderSize THEN NoHdr
  ELSE IF data.magic # MAGIC \/ data.version # VERSION
          \/ data.session_id # session_id THEN NoHdr
  ELSE [ok |-> TRUE, command |-> data.command, seq_num |-> data.seq_num,
        session_id |-> data.session_id, logical_clock |-> data.logical_clock]

\* A step of the client that touches neither the network nor the server.
Local(c) == client' = c /\ UNCHANGED <<srvVars, now, c2s, s2c>>

\* run(): self.state = "WAIT_HELLO", then send_message(CMD_HELLO).
M_Start ==
  /\ client.pcm = "start"
  /\ Local([client EXCEPT !.state = "WAIT_HELLO", !.m_cmd = CMD_HELLO,
                          !.pcm = "tick_rd"])

\* update_clock() called by create_message: `self.logical_clock += 1` reads,
M_TickRead ==
  /\ client.pcm = "tick_rd"
  /\ Local([client EXCEPT !.m_tmp = client.logical_clock, !.pcm = "tick_wr"])

\* then writes,
M_TickWrite ==
  /\ client.pcm = "tick_wr"
  /\ Local([client EXCEPT !.logical_clock = client.m_tmp + 1, !.m_tmp = 0,
                          !.pcm = "tick_ret"])

\* and `return self.logical_clock` reads the field again.
M_TickReturn ==
  /\ client.pcm = "tick_ret"
  /\ Local([client EXCEPT !.m_clock = client.logical_clock, !.pcm = "pack"])

\* create_message packs self.seq_num as it is now and send_message passes the
\* datagram to sendto; a struct.error ends the main flow and the process.
M_PackSend ==
  /\ client.pcm = "pack"
  /\ IF pack_ok(client.seq_num, client.m_clock)
     THEN /\ c2s' = Append(c2s, encode(client.m_cmd, client.seq_num,
                                       client.session_id, client.m_clock))
          /\ client' = [client EXCEPT !.m_clock = 0, !.pcm = "time"]
     ELSE /\ c2s' = c2s
          /\ client' = [client EXCEPT !.m_clock = 0, !.pcm = "crashed"]
  /\ UNCHANGED <<srvVars, now, s2c>>

M_SetTime ==
  /\ client.pcm = "time"
  /\ Local([client EXCEPT !.last_sent_time = now, !.pcm = "ack"])

M_SetAck ==
  /\ client.pcm = "ack"
  /\ Local([client EXCEPT !.pending_ack = TRUE,
                          !.pcm = IF client.m_cmd = CMD_GOODBYE
                                  THEN "sleep" ELSE "loop"])

\* `while self.running:` of the input loop.
M_Loop ==
  /\ client.pcm = "loop"
  /\ Local([client EXCEPT !.pcm = IF client.running THEN "check" ELSE "exit"])

\* `if self.state == "READY":`
M_Check ==
  /\ client.pcm = "check"
  /\ Local([client EXCEPT !.pcm = IF client.state = "READY"
                                  THEN "read" ELSE "loop"])

\* readline(): a line of text, or an empty line, "q" or an interrupt.
M_ReadLine ==
  /\ client.pcm = "read"
  /\ \/ /\ client.lines < MaxLines
        /\ Local([client EXCEPT !.lines = @ + 1, !.pcm = "set"])
     \/ Local([client EXCEPT !.pcm = "exit"])

\* self.state = "WAIT_ALIVE", then send_message(CMD_DATA, ...).
M_SetWaitAlive ==
  /\ client.pcm = "set"
  /\ Local([client EXCEPT !.state = "WAIT_ALIVE", !.m_cmd = CMD_DATA,
                          !.pcm = "tick_rd"])

\* After the loop: `if self.running: self.send_message(CMD_GOODBYE)`.
M_Exit ==
  /\ client.pcm = "exit"
  /\ Local(IF client.running
           THEN [client EXCEPT !.m_cmd = CMD_GOODBYE, !.pcm = "tick_rd"]
           ELSE [client EXCEPT !.pcm = "fin"])

\* time.sleep(0.5) after the GOODBYE.
M_Sleep ==
  /\ client.pcm = "sleep"
  /\ Local([client EXCEPT !.pcm = "fin"])

\* self.running = False and run() returns.
M_Finish ==
  /\ client.pcm = "fin"
  /\ Local([client EXCEPT !.running = FALSE, !.pcm = "done"])

\* `while self.running:` of listen_server.
L_Loop ==
  /\ Alive
  /\ client.pcl = "loop"
  /\ Local([client EXCEPT !.l_data = NoData,
                          !.pcl = IF client.running THEN "recv" ELSE "done"])

\* recvfrom returned `data`: parse it, `continue` when there is no header.
listen_recv(data) ==
  LET hdr == cli_parse_message(data, client.session_id)
  IN IF hdr.ok
     THEN [client EXCEPT !.l_data = data, !.l_hdr = hdr, !.pcl = "ack"]
     ELSE [client EXCEPT !.l_data = data, !.pcl = "loop"]

\* self.pending_ack = False
L_ClearAck ==
  /\ Alive
  /\ client.pcl = "ack"
  /\ Local([client EXCEPT !.pending_ack = FALSE, !.pcl = "max_rd"])

\* update_clock(logical_clock): the max reads,
L_MaxRead ==
  /\ Alive
  /\ client.pcl = "max_rd"
  /\ Local([client EXCEPT !.l_tmp = client.logical_clock, !.pcl = "max_wr"])

\* and writes; then the increment reads,
L_MaxWrite ==
  /\ Alive
  /\ client.pcl = "max_wr"
  /\ Local([client EXCEPT
              !.logical_clock = Max(client.l_tmp, client.l_hdr.logical_clock),
              !.l_tmp = 0, !.pcl = "inc_rd"])

L_IncRead ==
  /\ Alive
  /\ client.pcl = "inc_rd"
  /\ Local([client EXCEPT !.l_tmp = client.logical_clock, !.pcl = "inc_wr"])

\* and writes.
L_IncWrite ==
  /\ Alive
  /\ client.pcl = "inc_wr"
  /\ Local([client EXCEPT !.logical_clock = client.l_tmp + 1, !.l_tmp = 0,
                          !.pcl = "fsm"])

\* The if / elif chain of listen_server up to its first assignment.
L_Fsm ==
  /\ Alive
  /\ client.pcl = "fsm"
  /\ Local(IF client.l_hdr.command = CMD_HELLO /\ client.state = "WAIT_HELLO"
           THEN [client EXCEPT !.state = "READY", !.pcl = "seq"]
           ELSE IF client.l_hdr.command = CMD_ALIVE
                   /\ client.state = "WAIT_ALIVE"
           THEN [client EXCEPT !.state = "READY", !.pcl = "seq"]
           ELSE IF client.l_hdr.command = CMD_GOODBYE
           THEN [client EXCEPT !.running = FALSE, !.l_hdr = NoHdr,
                               !.log = @ \cup {PrintGoodbye},
                               !.pcl = "loop"]
           ELSE [client EXCEPT !.l_hdr = NoHdr, !.pcl = "loop"])

\* self.seq_num += 1, the statement after self.state = "READY".
L_SeqInc ==
  /\ Alive
  /\ client.pcl = "seq"
  /\ Local([client EXCEPT !.seq_num = @ + 1, !.l_hdr = NoHdr, !.pcl = "loop"])

\* `while self.running:` of check_timeout, and its sleep.
W_Loop ==
  /\ Alive
  /\ client.pcw = "loop"
  /\ Local([client EXCEPT !.pcw = IF client.running THEN "check" ELSE "done"])

\* `if self.pending_ack and ...`
W_Check ==
  /\ Alive
  /\ client.pcw = "check"
  /\ Local([client EXCEPT !.pcw = IF client.pending_ack
                                  THEN "time" ELSE "loop"])

\* `... time.time() - self.last_sent_time > self.timeout: self.running = False`
W_Time ==
  /\ Alive
  /\ client.pcw = "time"
  /\ Local(IF now - client.last_sent_time > Timeout
           THEN [client EXCEPT !.running = FALSE,
                               !.log = @ \cup {PrintTimeout},
                               !.pcw = "loop"]
           ELSE [client EXCEPT !.pcw = "loop"])

ClientLocal ==
  \/ M_Start \/ M_TickRead \/ M_TickWrite \/ M_TickReturn \/ M_PackSend
  \/ M_SetTime \/ M_SetAck \/ M_Loop \/ M_Check \/ M_ReadLine
  \/ M_SetWaitAlive \/ M_Exit \/ M_Sleep \/ M_Finish
  \/ L_Loop \/ L_ClearAck \/ L_MaxRead \/ L_MaxWrite \/ L_IncRead
  \/ L_IncWrite \/ L_Fsm \/ L_SeqInc
  \/ W_Loop \/ W_Check \/ W_Time

\* ------------------------- one client and the server on a perfect channel
\* The channel delivers every datagram once and in order.
Deliver(out) == s2c' = s2c \o [i \in DOMAIN out |-> out[i].dgram]

E2E_IdleSweep == run_sweep /\ Deliver(sent') /\ UNCHANGED <<client, c2s>>

E2E_Receive ==
  /\ c2s # <<>>
  /\ run_receive(Head(c2s), ClientAddr)
  /\ c2s' = Tail(c2s)
  /\ Deliver(sent')
  /\ UNCHANGED client

E2E_SelectTimeout ==
  /\ c2s = <<>>
  /\ run_select_timeout
  /\ UNCHANGED <<client, c2s, s2c>>

E2E_Cleanup == run_cleanup /\ Deliver(sent') /\ UNCHANGED <<client, c2s>>

\* recvfrom of the listener returns the next datagram,
E2E_ListenRecv ==
  /\ Alive
  /\ client.pcl = "recv"
  /\ s2c # <<>>
  /\ client' = listen_recv(Head(s2c))
  /\ s2c' = Tail(s2c)
  /\ UNCHANGED <<srvVars, now, c2s>>

\* or raises socket.timeout after 0.5 s, and the loop tests self.running:
\* the listener is back in recvfrom or leaves the loop.
E2E_ListenTimeout ==
  /\ Alive
  /\ client.pcl = "recv"
  /\ s2c = <<>>
  /\ Local([client EXCEPT !.pcl = IF client.running THEN "recv" ELSE "done"])

NextE2E ==
  \/ E2E_IdleSweep
  \/ E2E_Receive
  \/ E2E_SelectTimeout
  \/ E2E_Cleanup
  \/ E2E_ListenRecv
  \/ E2E_ListenTimeout
  \/ ClientLocal
  \/ Tick

SpecE2E == Init /\ [][NextE2E]_vars

\* ------------------------------------- one client on an open network
\* Any datagram may reach the client's socket at any time; what the client
\* sends stays in c2s, in the order it was sent.
ClientDatagrams ==
  {encode(c, 0, ClientSid, k) : c \in Commands, k \in {0, 2}}
    \cup {encode(CMD_HELLO, 0, s, 0) : s \in SessionIds \ {ClientSid}}
    \cup Malformed

Cli_ListenRecv(data) ==
  /\ Alive
  /\ client.pcl = "recv"
  /\ client.recvd < MaxInbound
  /\ client' = [listen_recv(data) EXCEPT !.recvd = @ + 1]
  /\ UNCHANGED <<srvVars, now, c2s, s2c>>

Cli_Receive == \E data \in ClientDatagrams : Cli_ListenRecv(data)

NextClient ==
  \/ Cli_Receive
  \/ E2E_ListenTimeout
  \/ ClientLocal
  \/ Tick

SpecClient == Init /\ [][NextClient]_vars

\* ------------------------------------------------------------ step filters
\* The step is one run of handle_packet on a well-formed datagram.
PacketStep == spc = "select" /\ spc' # "select" /\ op'.kind = "packet" /\ op'.hdr.ok
SweepStep == spc = "sweep" /\ spc' # "sweep" /\ op'.kind = "sweep"
Known(sid) == sid \in DOMAIN sessions
Goodbyes(out, sid) ==
  {i \in DOMAIN out : out[i].dgram.command = CMD_GOODBYE
                      /\ out[i].dgram.session_id = sid}
\* The step is a sendto of the client; LastSent is the datagram it sent.
SendStep == client.pcm = "pack" /\ client'.pcm = "time"
LastSent == c2s'[Len(c2s')]
\* The step is a recvfrom of the client that returned a datagram.
RecvStep == client.pcl = "recv" /\ client'.l_data # NoData
\* The main flow is between two sends and the listener between two datagrams.
MainIdle == client.pcm \in {"loop", "check", "read"}
ListenerIdle == client.pcl \in {"loop", "recv", "done"}

\* ------------------------------------------------------------------ claims
\* C1: a DATA with seq = expected_seq + k (k >= 1) produces exactly k
\* lost-packet reports, for expected_seq .. seq-1 in increasing order, sends
\* exactly one ALIVE and leaves expected_seq = seq + 1.
C1_GapHandling ==
  [][(PacketStep /\ op'.hdr.command = CMD_DATA /\ Known(op'.hdr.session_id))
       => LET sid == op'.hdr.session_id
              seq == op'.hdr.seq_num
              exp == sessions[sid].expected_seq
          IN seq > exp =>
               /\ reports' = [i \in 1..(seq - exp) |-> Report("lost", exp + i - 1)]
               /\ Len(sent') = 1
               /\ sent'[1].dgram.command = CMD_ALIVE
               /\ sid \in DOMAIN sessions'
               /\ sessions'[sid].expected_seq = seq + 1]_vars

\* C2: a DATA with seq < expected_seq sends nothing and leaves the session
\* record and the session table unchanged.
C2_DuplicateFrame ==
  [][(PacketStep /\ op'.hdr.command = CMD_DATA /\ Known(op'.hdr.session_id))
       => (op'.hdr.seq_num < sessions[op'.hdr.session_id].expected_seq =>
             /\ sent' = <<>>
             /\ sessions' = sessions
             /\ order' = order
             /\ srv_running' = srv_running)]_vars

C2_Witness ==
  /\ op.kind = "packet"
  /\ op.hdr.command = CMD_DATA
  /\ reports = <<Report("duplicate", op.hdr.seq_num)>>
  /\ Cardinality(DOMAIN sessions) = 2
  /\ now > sessions[op.hdr.session_id].last_activity

\* C3: expected_seq of a record never decreases, and once the record has
\* accepted a packet it is one more than the highest sequence number accepted.
C3_ExpectedSeq ==
  [][/\ \A s \in (DOMAIN sessions) \cap (DOMAIN sessions') :
          sessions'[s].expected_seq >= sessions[s].expected_seq
     /\ \A s \in DOMAIN sessions' :
          accepted'[s] >= 0 => sessions'[s].expected_seq = accepted'[s] + 1]_vars

\* C4: an idle sweep leaves no session in the table that has been idle for
\* longer than the threshold: each such session is removed and is sent
\* exactly one GOODBYE.
C4_IdleReclaimed ==
  [][SweepStep =>
       \A s \in DOMAIN sessions :
          now - sessions[s].last_activity > IdleThreshold =>
            /\ s \notin DOMAIN sessions'
            /\ Cardinality(Goodbyes(sent', s)) = 1]_vars

\* C5: every record present in the session table is active.
C5_TableAllActive == \A s \in DOMAIN sessions : sessions[s].active

\* C6: once a session id has been torn down, the server never creates a
\* record for it again and never replies HELLO for it.
C6_NoResurrection ==
  [][\A s \in torn :
        /\ s \in DOMAIN sessions' => s \in DOMAIN sessions
        /\ \A i \in DOMAIN sent' :
              ~(sent'[i].dgram.command = CMD_HELLO
                /\ sent'[i].dgram.session_id = s)]_vars

\* C7: a HELLO for an existing session with expected_seq # 0 sends exactly
\* one GOODBYE to the session's peer, marks the session inactive, leaves
\* expected_seq unchanged, and the server keeps running.
C7_ProtocolViolation ==
  [][(PacketStep /\ op'.hdr.command = CMD_HELLO /\ Known(op'.hdr.session_id))
       => LET sid == op'.hdr.session_id
          IN sessions[sid].expected_seq # 0 =>
               /\ Len(sent') = 1
               /\ sent'[1].to = sessions[sid].addr
               /\ sent'[1].dgram.command = CMD_GOODBYE
               /\ sent'[1].dgram.session_id = sid
               /\ sid \in DOMAIN sessions'
               /\ ~sessions'[sid].active
               /\ sessions'[sid].expected_seq = sessions[sid].expected_seq
               /\ srv_running']_vars

\* C8: a command other than HELLO for a session id that is not in the table
\* creates no record, sends nothing and leaves the table unchanged.
C8_UnknownSession ==
  [][(PacketStep /\ op'.hdr.command # CMD_HELLO /\ ~Known(op'.hdr.session_id))
       => /\ sessions' = sessions
          /\ order' = order
          /\ sent' = <<>>
          /\ srv_running' = srv_running]_vars

C8_Witness ==
  /\ op.kind = "packet"
  /\ op.hdr.ok
  /\ op.hdr.command \in {CMD_DATA, CMD_ALIVE, CMD_GOODBYE}
  /\ op.hdr.session_id \notin DOMAIN sessions
  /\ sent = <<>>
  /\ reports = <<>>
  /\ DOMAIN sessions # {}

\* C10 as stated: the ALIVE answering an accepted DATA with sequence number
\* s carries seq = s + 1.
C10_AliveSeqNext ==
  [][(PacketStep /\ op'.hdr.command = CMD_DATA /\ Known(op'.hdr.session_id))
       => (op'.hdr.seq_num >= sessions[op'.hdr.session_id].expected_seq =>
             \A i \in DOMAIN sent' :
                sent'[i].dgram.command = CMD_ALIVE
                  => sent'[i].dgram.seq_num = op'.hdr.seq_num + 1)]_vars

\* C10 amended: the ALIVE answering an accepted DATA with sequence number s
\* carries seq = s, one less than expected_seq after handling.
C10_AliveSeq ==
  [][(PacketStep /\ op'.hdr.command = CMD_DATA /\ Known(op'.hdr.session_id))
       => LET sid == op'.hdr.session_id
          IN (op'.hdr.seq_num >= sessions[sid].expected_seq /\ sent' # <<>>) =>
               /\ Len(sent') = 1
               /\ sent'[1].dgram.command = CMD_ALIVE
               /\ sent'[1].dgram.seq_num = op'.hdr.seq_num
               /\ sessions'[sid].expected_seq = sent'[1].dgram.seq_num + 1]_vars

C10_Witness ==
  /\ op.kind = "packet"
  /\ op.hdr.command = CMD_DATA
  /\ Len(sent) = 1
  /\ sent[1].dgram.command = CMD_ALIVE
  /\ sent[1].dgram.seq_num = op.hdr.seq_num
  /\ Len(reports) = 2

\* C9: on a channel that neither loses, duplicates nor reorders, the HELLO is
\* sent with seq 0, the n-th DATA is sent with seq n, every DATA reaches the
\* server with seq = expected_seq, and the server reports no duplicate and
\* no lost packet.
C9_SequenceAgreement ==
  [][/\ (client.pcm = "pack" /\ Len(c2s') = Len(c2s) + 1) =>
          LET d == c2s'[Len(c2s')]
          IN /\ d.command = CMD_HELLO => d.seq_num = 0
             /\ d.command = CMD_DATA => d.seq_num = client.lines
     /\ (PacketStep /\ op'.hdr.command = CMD_DATA /\ Known(op'.hdr.session_id))
          => op'.hdr.seq_num = sessions[op'.hdr.session_id].expected_seq
     /\ \A i \in DOMAIN reports' :
          reports'[i].kind \notin {"duplicate", "lost"}]_vars

\* C14: whatever datagrams arrive, the event loop of the server keeps
\* running: it never leaves the loop and never dies.
C14_ServerSurvives == srv_running /\ spc \in {"sweep", "select"}

\* C15: every update_clock call on a session leaves the clock at least 1
\* greater than before and returns that value, and a call with a received
\* clock greater than the current clock returns the received clock + 1.
C15_TickRule ==
  [][op'.kind = "tick" =>
       LET sid == op'.hdr.session_id
           c == op'.hdr.logical_clock
           before == sessions[sid].logical_clock
           returned == reports'[1].seq
       IN /\ sessions'[sid].logical_clock >= before + 1
          /\ returned = sessions'[sid].logical_clock
          /\ (c # NoClock /\ c > before) => returned = c + 1]_vars

C15_Witness ==
  /\ op.kind = "tick"
  /\ op.hdr.logical_clock >= 3
  /\ reports = <<Report("returned", op.hdr.logical_clock + 1)>>
  /\ sessions[op.hdr.session_id].logical_clock = op.hdr.logical_clock + 1

\* C19: every message the server sends in reply to an inbound message
\* carries a clock strictly greater than the clock of that message.
C19_CausalReplies ==
  [][PacketStep =>
       \A i \in DOMAIN sent' :
          sent'[i].dgram.logical_clock > op'.hdr.logical_clock]_vars

\* C20: a record that is marked inactive never sends ALIVE again and its
\* expected_seq never advances again.
C20_InactiveDead ==
  [][\A s \in (DOMAIN sessions) \cap (DOMAIN sessions') :
        ~sessions[s].active =>
          /\ sessions'[s].expected_seq = sessions[s].expected_seq
          /\ PacketStep =>
               \A i \in DOMAIN sent' :
                  ~(sent'[i].dgram.command = CMD_ALIVE
                    /\ sent'[i].dgram.session_id = s)]_vars

\* C11: once the watchdog has ended the session on an ack timeout, the
\* client sends no GOODBYE.
C11_SilentAbort ==
  [][(SendStep /\ PrintTimeout \in client.log)
       => LastSent.command # CMD_GOODBYE]_vars

\* C12: a client that waits in WAIT_HELLO or WAIT_ALIVE and has not
\* received the reply terminates, whatever other datagrams arrived: while it
\* waits its ack timer stays armed, so that the watchdog ends the wait.
C12_TimerArmed ==
  (/\ client.state \in {"WAIT_HELLO", "WAIT_ALIVE"}
   /\ client.running
   /\ MainIdle
   /\ ListenerIdle) => client.pending_ack

\* C13: once the client has terminated on a GOODBYE of the server or on an
\* ack timeout, it sends no further message.
C13_NoSendAfterEnd == [][SendStep => client.log = {}]_vars

\* C16: the client's clock never decreases, every tick of either flow
\* raises it, and no two messages the client sent carry the same clock.
C16_AtomicClock ==
  [][/\ client'.logical_clock >= client.logical_clock
     /\ (client.pcm = "tick_wr" /\ client'.pcm = "tick_ret")
          => client'.logical_clock > client.logical_clock
     /\ (client.pcl = "inc_wr" /\ client'.pcl = "fsm")
          => client'.logical_clock > client.logical_clock
     /\ SendStep => \A i \in DOMAIN c2s :
                       c2s[i].logical_clock # LastSent.logical_clock]_vars

\* C17: a datagram shorter than the header, with a wrong magic or version,
\* or with a session id other than the client's is dropped: the listener is
\* back at its loop, state, seq_num, pending_ack, logical clock and running
\* flag are unchanged and nothing is sent.
C17_DropForeign ==
  [][(/\ RecvStep
      /\ \/ client'.l_data.len < HeaderSize
         \/ client'.l_data.magic # MAGIC
         \/ client'.l_data.version # VERSION
         \/ client'.l_data.session_id # client.session_id)
       => /\ client'.pcl = "loop"
          /\ client'.l_hdr = NoHdr
          /\ client'.state = client.state
          /\ client'.seq_num = client.seq_num
          /\ client'.pending_ack = client.pending_ack
          /\ client'.logical_clock = client.logical_clock
          /\ client'.running = client.running
          /\ c2s' = c2s]_vars

C17_Witness ==
  /\ client.pcl = "loop"
  /\ client.l_data.len = HeaderSize
  /\ client.l_data.magic = MAGIC
  /\ client.l_data.session_id # client.session_id
  /\ client.state = "WAIT_HELLO"
  /\ client.pending_ack
  /\ client.running

\* C18: when the client is in READY, with the reply to its last send
\* processed and no send under way, pending_ack is clear.
C18_AckedSendClear ==
  (client.state = "READY" /\ MainIdle /\ ListenerIdle) => ~client.pending_ack

====
